---- MODULE Spec2Model ----
(***************************************************************************)
(* Model of astvisualizer.py: the FindYamlLoad visitor pass, the           *)
(* external/internal classification loop and the recursive add_node walk   *)
(* that fills the Graphviz graph.                                          *)
(*                                                                         *)
(* An AST is a sequence of node records; a node's identity id(node) is its *)
(* index in that sequence, the root (the Module) is index 1.  Python's     *)
(* call stack is explicit: one stack of frames per recursive function.     *)
(***************************************************************************)
EXTENDS Integers, Sequences, FiniteSets, TLC

VARIABLES
    tree,             \* the parsed AST (line 7)
    status,           \* position of the script: find, classify, walk, done, RecursionError
    vstack,           \* active FindYamlLoad.visit / generic_visit calls
    current_func,     \* FindYamlLoad.current_func
    yaml_load_calls,  \* list of (call node, enclosing function name)
    ci,               \* index of the classification loop (line 39)
    external_calls,   \* set of id(call_node)
    internal_calls,   \* set of id(call_node)
    node_counter,     \* global node_counter
    node_ids,         \* dict id(node) -> graph node name
    dot_nodes,        \* dot.node(...) calls, in order
    dot_edges,        \* dot.edge(...) calls, in order
    astack,           \* active add_node calls
    calls,            \* history: number of add_node calls made
    visits            \* history: number of add_node calls per AST node

vars == <<tree, status, vstack, current_func, yaml_load_calls, ci, external_calls,
          internal_calls, node_counter, node_ids, dot_nodes, dot_edges, astack,
          calls, visits>>

-----------------------------------------------------------------------------
(* Bounds and program constants *)

\* Python's recursion limit (sys.getrecursionlimit()), in frames
RecursionLimit == 24

\* longest string constant drawn as an input
MaxStrLen == 22

\* most newlines in one string constant
MaxNewlines == 1

\* len(s) > 20
TruncLimit == 20

\* s[:17]
TruncKeep == 17

\* None as the value of current_func
None == "None"

\* None as the value of node_ids.get(...) and of parent_id
NoNid == <<>>

\* the newline character of a string value
NL == "NL"

-----------------------------------------------------------------------------
(* AST nodes as ast.parse builds them.  fields lists node._fields in their  *)
(* declared order; a field holds a sub-node (list = FALSE, one element), a  *)
(* list of sub-nodes (list = TRUE) or no node at all (a primitive or None). *)

Nd(k, nm, fs) == [kind |-> k, name |-> nm, isstr |-> FALSE, value |-> <<>>, fields |-> fs]

Prim(f) == [f |-> f, list |-> FALSE, v |-> <<>>]

Sc(f, c) == [f |-> f, list |-> FALSE, v |-> <<c>>]

Ls(f, cs) == [f |-> f, list |-> TRUE, v |-> cs]

ModuleNode(body) == Nd("Module", "", <<Ls("body", body), Ls("type_ignores", <<>>)>>)

DefNode(k, nm, args, body) ==
    IF k = "ClassDef"
    THEN Nd(k, nm, <<Prim("name"), Ls("bases", <<>>), Ls("keywords", <<>>),
                     Ls("body", body), Ls("decorator_list", <<>>)>>)
    ELSE Nd(k, nm, <<Prim("name"), Sc("args", args), Ls("body", body),
                     Ls("decorator_list", <<>>), Prim("returns"), Prim("type_comment")>>)

ArgumentsNode(args) ==
    Nd("arguments", "", <<Ls("posonlyargs", <<>>), Ls("args", args), Prim("vararg"),
                          Ls("kwonlyargs", <<>>), Ls("kw_defaults", <<>>), Prim("kwarg"),
                          Ls("defaults", <<>>)>>)

ArgNode(nm) == Nd("arg", nm, <<Prim("arg"), Prim("annotation"), Prim("type_comment")>>)

ExprNode(v) == Nd("Expr", "", <<Sc("value", v)>>)

AssignNode(targets, v) ==
    Nd("Assign", "", <<Ls("targets", targets), Sc("value", v), Prim("type_comment")>>)

CallNode(func, args) == Nd("Call", "", <<Sc("func", func), Ls("args", args), Ls("keywords", <<>>)>>)

AttributeNode(v, attr, ctx) == Nd("Attribute", attr, <<Sc("value", v), Prim("attr"), Sc("ctx", ctx)>>)

NameNode(id, ctx) == Nd("Name", id, <<Prim("id"), Sc("ctx", ctx)>>)

ConstantNode(val, str) ==
    [kind |-> "Constant", name |-> "", isstr |-> str, value |-> val,
     fields |-> <<Prim("value"), Prim("kind")>>]

BinOpNode(l, op, r) == Nd("BinOp", "", <<Sc("left", l), Sc("op", op), Sc("right", r)>>)

LeafNode(k) == Nd(k, "", <<>>)

-----------------------------------------------------------------------------
(* Inputs: the trees ast.parse(code_text) can hand to the script.          *)

\* <k1> n1(a):
\*     <k2> n2():
\*         yaml.load(ARG)
\*     x = CALLEE(data, request)
\* yaml.load()
\* Load and Store are the singletons every Name/Attribute of the tree shares.
ScopeTree(k1, n1, k2, n2, arg, callee) ==
    << ModuleNode(<<2, 21>>),                                   \* 1
       DefNode(k1, n1, 3, <<5, 13>>),                           \* 2
       ArgumentsNode(<<4>>),                                    \* 3
       ArgNode("a"),                                            \* 4
       DefNode(k2, n2, 6, <<7>>),                               \* 5
       ArgumentsNode(<<>>),                                     \* 6
       ExprNode(8),                                             \* 7
       CallNode(9, <<11>>),                                     \* 8
       AttributeNode(10, "load", 25),                           \* 9
       NameNode("yaml", 25),                                    \* 10
       CASE arg = "request" -> NameNode("request", 25)
         [] arg = "data" -> NameNode("data", 25)
         [] arg = "request.data" -> AttributeNode(12, "data", 25)
         [] OTHER -> ConstantNode(<<"c">>, TRUE),               \* 11
       NameNode("request", 25),                                 \* 12
       AssignNode(<<14>>, 15),                                  \* 13
       NameNode("x", 26),                                       \* 14
       CallNode(16, <<19, 20>>),                                \* 15
       CASE callee = "yaml.load" -> AttributeNode(17, "load", 25)
         [] callee = "yaml.dump" -> AttributeNode(17, "dump", 25)
         [] callee = "json.load" -> AttributeNode(17, "load", 25)
         [] callee = "a.yaml.load" -> AttributeNode(17, "load", 25)
         [] OTHER -> NameNode("load", 25),                      \* 16
       CASE callee = "json.load" -> NameNode("json", 25)
         [] callee = "a.yaml.load" -> AttributeNode(18, "yaml", 25)
         [] OTHER -> NameNode("yaml", 25),                      \* 17
       NameNode("a", 25),                                       \* 18
       NameNode("data", 25),                                    \* 19
       NameNode("request", 25),                                 \* 20
       ExprNode(22),                                            \* 21
       CallNode(23, <<>>),                                      \* 22
       AttributeNode(24, "load", 25),                           \* 23
       NameNode("yaml", 25),                                    \* 24
       LeafNode("Load"),                                        \* 25
       LeafNode("Store") >>                                     \* 26

OuterKinds == {"FunctionDef", "ClassDef", "AsyncFunctionDef"}

InnerKinds == {"FunctionDef", "ClassDef"}

ScopeNames == {"_external_load", "f"}

ArgShapes == {"request", "data", "request.data", "const"}

CalleeShapes == {"yaml.load", "yaml.dump", "json.load", "a.yaml.load", "load"}

ScopeTrees ==
    { ScopeTree(k1, n1, k2, n2, arg, callee) :
        k1 \in OuterKinds, n1 \in ScopeNames, k2 \in InnerKinds, n2 \in ScopeNames,
        arg \in ArgShapes, callee \in CalleeShapes }

\* the subsets of S with at most k elements
RECURSIVE SubsetsUpTo(_, _)
SubsetsUpTo(S, k) ==
    IF k = 0 THEN {{}}
    ELSE LET P == SubsetsUpTo(S, k - 1) IN P \cup { p \cup {x} : p \in P, x \in S }

StrOf(len, nls) == [i \in 1..len |-> IF i \in nls THEN NL ELSE "a"]

Strings == UNION { { StrOf(len, nls) : nls \in SubsetsUpTo(1..len, MaxNewlines) } : len \in 0..MaxStrLen }

\* a module holding one expression statement, a constant
ConstTree(val, str) == << ModuleNode(<<2>>), ExprNode(3), ConstantNode(val, str) >>

ConstTrees == { ConstTree(s, TRUE) : s \in Strings } \cup { ConstTree(<<"7">>, FALSE) }

\* 1 + 1 + ... + 1 : a left-nested chain of BinOps deeper than the recursion limit
ChainLen == RecursionLimit

ChainTree ==
    [i \in 1..(2 * ChainLen + 4) |->
        IF i = 1 THEN ModuleNode(<<2>>)
        ELSE IF i = 2 THEN ExprNode(3)
        ELSE IF i <= 2 + ChainLen
             THEN BinOpNode(IF i = 2 + ChainLen THEN 2 * ChainLen + 3 ELSE i + 1,
                            2 * ChainLen + 4, i + ChainLen)
        ELSE IF i <= 2 * ChainLen + 3 THEN ConstantNode(<<"1">>, FALSE)
        ELSE LeafNode("Add")]

ParserTrees == ScopeTrees \cup ConstTrees \cup {ChainTree}

(* Node structures that are not strict trees: a sub-node object referenced  *)
(* from several fields, and one that is its own descendant.                 *)

\* Module.body holds the same Expr twice; each BinOp has one node as left and right
DiamondGraph ==
    << ModuleNode(<<2, 2>>), ExprNode(3), BinOpNode(4, 6, 4), BinOpNode(5, 6, 5),
       NameNode("data", 7), LeafNode("Add"), LeafNode("Load") >>

\* the BinOp's left operand is the Expr statement that holds the BinOp
CycleGraph ==
    << ModuleNode(<<2>>), ExprNode(3), BinOpNode(2, 5, 4), NameNode("data", 6),
       LeafNode("Add"), LeafNode("Load") >>

GraphInputs == {DiamondGraph, CycleGraph}

-----------------------------------------------------------------------------
(* ast helpers *)

Root == 1

Nodes == 1..Len(tree)

iter_fields_scalars_first(n) ==
    SelectSeq(tree[n].fields, LAMBDA fr : ~fr.list) \o SelectSeq(tree[n].fields, LAMBDA fr : fr.list)

\* ast.iter_fields(node): the fields in the order node._fields declares them
iter_fields(n) == tree[n].fields

\* str(field) for a sub-node field, f"{field}[{idx}]" for a list element
EdgeLabel(fr, i) == IF fr.list THEN <<fr.f, i - 1>> ELSE <<fr.f>>

FieldChildren(fr) == [i \in 1..Len(fr.v) |-> [label |-> EdgeLabel(fr, i), child |-> fr.v[i]]]

RECURSIVE Flatten(_)
Flatten(fs) == IF fs = <<>> THEN <<>> ELSE FieldChildren(Head(fs)) \o Flatten(Tail(fs))

\* the (field_name, sub-node) pairs the loop over iter_fields recurses into, in order
Children(n) == Flatten(iter_fields(n))

\* getattr(node, f) for a field holding sub-nodes
Field(n, f) == (CHOOSE i \in 1..Len(tree[n].fields) : tree[n].fields[i].f = f)

FieldValue(n, f) == tree[n].fields[Field(n, f)].v

\* a missing positional argument (first_arg = None)
NoNode == 0

Kind(n) == tree[n].kind

\* an attribute of the node that holds one sub-node
Sub(n, f) == FieldValue(n, f)[1]

\* list(ast.iter_child_nodes(node))
ChildNodes(n) == [i \in 1..Len(Children(n)) |-> Children(n)[i].child]

\* ast.walk(node): breadth-first over a queue, without a visited set
RECURSIVE ast_walk(_, _)
ast_walk(todo, out) ==
    IF todo = <<>> THEN out
    ELSE ast_walk(Tail(todo) \o ChildNodes(Head(todo)), Append(out, Head(todo)))

is_external_input_node_only(node) ==
    IF node = NoNode THEN FALSE
    ELSE Kind(node) = "Name" /\ tree[node].name = "request"

\* is_external_input(node)
is_external_input(node) ==
    IF node = NoNode THEN FALSE
    ELSE LET w == ast_walk(<<node>>, <<>>)
         IN \E i \in 1..Len(w) : Kind(w[i]) = "Name" /\ tree[w[i]].name = "request"

IsAnyLoadAttr(n) == Kind(Sub(n, "func")) = "Attribute" /\ tree[Sub(n, "func")].name = "load"

\* the test of visit_Call: the call is yaml.load(...)
IsYamlLoad(n) ==
    /\ Kind(Sub(n, "func")) = "Attribute"
    /\ tree[Sub(n, "func")].name = "load"
    /\ Kind(Sub(Sub(n, "func"), "value")) = "Name"
    /\ tree[Sub(Sub(n, "func"), "value")].name = "yaml"

\* first_arg = call_node.args[0] if call_node.args else None
FirstArg(n) == IF FieldValue(n, "args") # <<>> THEN FieldValue(n, "args")[1] ELSE NoNode

-----------------------------------------------------------------------------
(* Label synthesis of add_node *)

\* val.replace("\n", "\\n")
RECURSIVE replace(_)
replace(s) ==
    IF s = <<>> THEN <<>>
    ELSE (IF Head(s) = NL THEN <<"\\", "n">> ELSE <<Head(s)>>) \o replace(Tail(s))

TruncateWhole(s) == IF Len(s) > TruncLimit THEN SubSeq(s, 1, TruncLimit) \o <<".", ".", ".">> ELSE s

\* if len(s) > 20: s = s[:17] + "..."
Truncate(s) == IF Len(s) > TruncLimit THEN SubSeq(s, 1, TruncKeep) \o <<".", ".", ".">> ELSE s

\* func_name of a Call: the dotted name, as the sequence of its parts
FuncName(n) ==
    LET func == Sub(n, "func") IN
    IF Kind(func) = "Name" THEN <<tree[func].name>>
    ELSE IF Kind(func) = "Attribute"
    THEN LET val == Sub(func, "value") IN
         IF Kind(val) = "Name" THEN <<tree[val].name, tree[func].name>>
         ELSE IF Kind(val) = "Attribute" /\ Kind(Sub(val, "value")) = "Name"
         THEN <<tree[Sub(val, "value")].name, tree[val].name, tree[func].name>>
         ELSE <<tree[func].name>>
    ELSE <<Kind(n)>>

\* " [external]" / " [internal]" appended to the label of a Call
CallSuffix(n) ==
    IF n \in external_calls THEN " [external]"
    ELSE IF n \in internal_calls THEN " [internal]"
    ELSE ""

Lb(text, name, count, quoted, payload, suffix) ==
    [text |-> text, name |-> name, count |-> count, quoted |-> quoted,
     payload |-> payload, suffix |-> suffix]

\* the label add_node gives a node on its first visit
Label(n) ==
    LET k == Kind(n) IN
    CASE k = "FunctionDef" ->
           Lb("FunctionDef: name=, args=", <<tree[n].name>>,
              Len(FieldValue(Sub(n, "args"), "args")), FALSE, <<>>, "")
      [] k = "ClassDef" -> Lb("ClassDef: name=", <<tree[n].name>>, 0, FALSE, <<>>, "")
      [] k = "Assign" ->
           IF Len(FieldValue(n, "targets")) = 1 /\ Kind(FieldValue(n, "targets")[1]) = "Name"
           THEN Lb("Assign: = ...", <<tree[FieldValue(n, "targets")[1]].name>>, 0, FALSE, <<>>, "")
           ELSE Lb("Assign", <<>>, 0, FALSE, <<>>, "")
      [] k = "Call" ->
           Lb("Call: (args=)", FuncName(n), Len(FieldValue(n, "args")), FALSE, <<>>, CallSuffix(n))
      [] k = "Attribute" -> Lb("Attribute: .", <<tree[n].name>>, 0, FALSE, <<>>, "")
      [] k = "Name" -> Lb("Name: ()", <<tree[n].name, Kind(Sub(n, "ctx"))>>, 0, FALSE, <<>>, "")
      [] k = "Constant" ->
           IF tree[n].isstr
           THEN Lb("Constant: ", <<>>, 0, TRUE, Truncate(replace(tree[n].value)), "")
           ELSE Lb("Constant: ", <<>>, 0, FALSE, tree[n].value, "")
      [] k = "arg" -> Lb("arg: ", <<tree[n].name>>, 0, FALSE, <<>>, "")
      [] OTHER -> Lb(k, <<>>, 0, FALSE, <<>>, "")

\* fillcolor of the dot.node call: lines 109 and 112, else the default of line 50
FillColor(n) ==
    IF Kind(n) = "Call" /\ n \in external_calls THEN "lightcoral"
    ELSE IF Kind(n) = "Call" /\ n \in internal_calls THEN "lightblue"
    ELSE "white"

\* f"node{node_counter}"
NidOf(k) == <<"node", k>>

node_ids_get_nothing(n) == NoNid

\* node_ids.get(id(node))
node_ids_get(n) == node_ids[n]

EdgeOnFirstVisit(parent_id, first) == parent_id # NoNid /\ first

\* if parent_id: -- on a first visit and on a later one alike
EdgeEmitted(parent_id, first) == parent_id # NoNid

KeptFunc(prev, cur) == cur

\* self.current_func = prev
RestoredFunc(prev, cur) == prev

-----------------------------------------------------------------------------
(* The script *)

InitWith(inputs) ==
    /\ tree \in inputs
    /\ status = "find"
    /\ vstack = <<>>
    /\ current_func = None
    /\ yaml_load_calls = <<>>
    /\ ci = 1
    /\ external_calls = {}
    /\ internal_calls = {}
    /\ node_counter = 0
    /\ node_ids = [n \in 1..Len(tree) |-> NoNid]
    /\ dot_nodes = <<>>
    /\ dot_edges = <<>>
    /\ astack = <<>>
    /\ calls = 0
    /\ visits = [n \in 1..Len(tree) |-> 0]

Init == InitWith(ParserTrees)

InitGraph == InitWith(ParserTrees \cup GraphInputs)

VTop == vstack[Len(vstack)]

\* the visitor is about to call self.visit on a node
VCanEnter ==
    /\ status = "find"
    /\ IF vstack = <<>> THEN TRUE ELSE VTop.i <= Len(Children(VTop.node))

VTarget == IF vstack = <<>> THEN Root ELSE Children(VTop.node)[VTop.i].child

\* Python frames in use: the module's own, and those of the active visit calls
VDepth == IF vstack = <<>> THEN 1 ELSE VTop.depth

\* visit + generic_visit, and the visit_<Kind> method between them when there is one
Frames(k) == IF k \in {"FunctionDef", "ClassDef", "Call"} THEN 3 ELSE 2

VPushed(n) ==
    Append(IF vstack = <<>> THEN vstack ELSE [vstack EXCEPT ![Len(vstack)].i = @ + 1],
           [node |-> n, i |-> 1, prev |-> current_func, depth |-> VDepth + Frames(Kind(n))])

VOverflow(n) == VDepth + Frames(Kind(n)) > RecursionLimit

walkVars == <<node_counter, node_ids, dot_nodes, dot_edges, astack, calls, visits>>

classVars == <<ci, external_calls, internal_calls>>

\* FindYamlLoad.visit_FunctionDef (lines 20-23, up to the recursion)
visit_FunctionDef ==
    /\ VCanEnter
    /\ Kind(VTarget) = "FunctionDef"
    /\ IF VOverflow(VTarget)
       THEN status' = "RecursionError" /\ UNCHANGED <<vstack, current_func>>
       ELSE /\ vstack' = VPushed(VTarget)
            /\ current_func' = tree[VTarget].name
            /\ UNCHANGED status
    /\ UNCHANGED <<tree, yaml_load_calls, classVars, walkVars>>

\* FindYamlLoad.visit_ClassDef
visit_ClassDef ==
    /\ VCanEnter
    /\ Kind(VTarget) = "ClassDef"
    /\ IF VOverflow(VTarget)
       THEN status' = "RecursionError" /\ UNCHANGED vstack
       ELSE vstack' = VPushed(VTarget) /\ UNCHANGED status
    /\ UNCHANGED <<tree, current_func, yaml_load_calls, classVars, walkVars>>

\* FindYamlLoad.visit_Call
visit_Call ==
    /\ VCanEnter
    /\ Kind(VTarget) = "Call"
    /\ IF VOverflow(VTarget)
       THEN status' = "RecursionError" /\ UNCHANGED <<vstack, yaml_load_calls>>
       ELSE /\ vstack' = VPushed(VTarget)
            /\ yaml_load_calls' = IF IsYamlLoad(VTarget)
                                  THEN Append(yaml_load_calls, <<VTarget, current_func>>)
                                  ELSE yaml_load_calls
            /\ UNCHANGED status
    /\ UNCHANGED <<tree, current_func, classVars, walkVars>>

\* NodeVisitor.generic_visit, for the kinds FindYamlLoad has no method for
generic_visit ==
    /\ VCanEnter
    /\ Kind(VTarget) \notin {"FunctionDef", "ClassDef", "Call"}
    /\ IF VOverflow(VTarget)
       THEN status' = "RecursionError" /\ UNCHANGED vstack
       ELSE vstack' = VPushed(VTarget) /\ UNCHANGED status
    /\ UNCHANGED <<tree, current_func, yaml_load_calls, classVars, walkVars>>

\* a visit call returns; visit_FunctionDef restores current_func (line 24)
visit_return ==
    /\ status = "find"
    /\ vstack # <<>>
    /\ VTop.i > Len(Children(VTop.node))
    /\ vstack' = SubSeq(vstack, 1, Len(vstack) - 1)
    /\ current_func' = IF Kind(VTop.node) = "FunctionDef"
                       THEN RestoredFunc(VTop.prev, current_func)
                       ELSE current_func
    /\ status' = IF Len(vstack) = 1 THEN "classify" ELSE "find"
    /\ UNCHANGED <<tree, yaml_load_calls, classVars, walkVars>>

\* one iteration of the loop of lines 39-45
Classify ==
    /\ status = "classify"
    /\ ci <= Len(yaml_load_calls)
    /\ LET call_node == yaml_load_calls[ci][1]
           func_name == yaml_load_calls[ci][2]
           first_arg == FirstArg(call_node)
       IN IF func_name = "_external_load" \/ is_external_input(first_arg)
          THEN /\ external_calls' = external_calls \cup {call_node}
               /\ UNCHANGED internal_calls
          ELSE /\ internal_calls' = internal_calls \cup {call_node}
               /\ UNCHANGED external_calls
    /\ ci' = ci + 1
    /\ UNCHANGED <<tree, status, vstack, current_func, yaml_load_calls, walkVars>>

ATop == astack[Len(astack)]

\* add_node is about to be called: on the tree (line 187) or on a child (lines 179, 184)
ACanEnter ==
    IF status = "classify" THEN ci > Len(yaml_load_calls)
    ELSE IF status = "walk" /\ astack # <<>> THEN ATop.i <= Len(Children(ATop.node))
    ELSE FALSE

\* add_node(node, parent_id, field_name), up to its first recursive call
add_node ==
    /\ ACanEnter
    /\ LET isRoot == status = "classify"
           node == IF isRoot THEN Root ELSE Children(ATop.node)[ATop.i].child
           parent_id == IF isRoot THEN NoNid ELSE ATop.nid
           field_name == IF isRoot THEN <<>> ELSE Children(ATop.node)[ATop.i].label
           first == node_ids_get(node) = NoNid
           nid == IF first THEN NidOf(node_counter) ELSE node_ids[node]
       IN IF 1 + Len(astack) + 1 > RecursionLimit
          THEN /\ status' = "RecursionError"
               /\ UNCHANGED walkVars
          ELSE /\ status' = "walk"
               /\ node_ids' = IF first THEN [node_ids EXCEPT ![node] = nid] ELSE node_ids
               /\ node_counter' = IF first THEN node_counter + 1 ELSE node_counter
               /\ dot_nodes' = IF first
                               THEN Append(dot_nodes, [id |-> nid, label |-> Label(node),
                                                       fillcolor |-> FillColor(node)])
                               ELSE dot_nodes
               /\ dot_edges' = IF EdgeEmitted(parent_id, first)
                               THEN Append(dot_edges, [from |-> parent_id, to |-> nid,
                                                       label |-> field_name])
                               ELSE dot_edges
               /\ astack' = Append(IF isRoot THEN astack
                                   ELSE [astack EXCEPT ![Len(astack)].i = @ + 1],
                                   [node |-> node, nid |-> nid, i |-> 1])
               /\ calls' = calls + 1
               /\ visits' = [visits EXCEPT ![node] = @ + 1]
    /\ UNCHANGED <<tree, vstack, current_func, yaml_load_calls, classVars>>

\* an add_node call returns; the return of add_node(tree) ends the walk
add_node_return ==
    /\ status = "walk"
    /\ astack # <<>>
    /\ ATop.i > Len(Children(ATop.node))
    /\ astack' = SubSeq(astack, 1, Len(astack) - 1)
    /\ status' = IF Len(astack) = 1 THEN "done" ELSE "walk"
    /\ UNCHANGED <<tree, vstack, current_func, yaml_load_calls, classVars,
                   node_counter, node_ids, dot_nodes, dot_edges, calls, visits>>

Next ==
    \/ visit_FunctionDef
    \/ visit_ClassDef
    \/ visit_Call
    \/ generic_visit
    \/ visit_return
    \/ Classify
    \/ add_node
    \/ add_node_return

\* the script run on the trees ast.parse produces
Spec == Init /\ [][Next]_vars

\* the same run on node structures that need not be trees
SpecGraph == InitGraph /\ [][Next]_vars

TypeOK ==
    /\ status \in {"find", "classify", "walk", "done", "RecursionError"}
    /\ external_calls \subseteq Nodes
    /\ internal_calls \subseteq Nodes
    /\ node_counter = Len(dot_nodes)

-----------------------------------------------------------------------------
(* Vocabulary of the properties: the input as a graph, the output as a graph *)

\* the sub-nodes a node's fields hold
ChildSet(n) ==
    UNION { { tree[n].fields[i].v[j] : j \in 1..Len(tree[n].fields[i].v) } :
            i \in 1..Len(tree[n].fields) }

RECURSIVE ReachFrom(_)
ReachFrom(S) ==
    LET T == S \cup UNION { ChildSet(n) : n \in S } IN IF T = S THEN S ELSE ReachFrom(T)

\* the node identities reachable from the root
Reach == ReachFrom({Root})

\* the references (parent, field, position) that hold node n
RefsTo(n) ==
    UNION { UNION { { <<p, i, j>> : j \in { k \in 1..Len(tree[p].fields[i].v) :
                                              tree[p].fields[i].v[k] = n } } :
                    i \in 1..Len(tree[p].fields) } :
            p \in Reach }

NumRefs == Cardinality(UNION { RefsTo(n) : n \in Reach })

HasCycle == \E n \in Reach : n \in ReachFrom(ChildSet(n))

Registered == { n \in Nodes : node_ids[n] # NoNid }

GraphNodeOf(n) == dot_nodes[CHOOSE i \in 1..Len(dot_nodes) : dot_nodes[i].id = node_ids[n]]

NodeOfNid(id) == CHOOSE n \in Nodes : node_ids[n] = id

Incoming(id) == Cardinality({ i \in 1..Len(dot_edges) : dot_edges[i].to = id })

ClassifyDone ==
    \/ status \in {"walk", "done"}
    \/ status = "classify" /\ ci > Len(yaml_load_calls)

Parent(n) == CHOOSE p \in Nodes : n \in ChildSet(p)

\* name of the nearest proper ancestor whose kind is in kinds, None without one
RECURSIVE EnclosingDef(_, _)
EnclosingDef(n, kinds) ==
    IF n = Root THEN None
    ELSE IF Kind(Parent(n)) \in kinds THEN tree[Parent(n)].name
    ELSE EnclosingDef(Parent(n), kinds)

RefsRequest(a) ==
    /\ a # NoNode
    /\ \E m \in ReachFrom({a}) : Kind(m) = "Name" /\ tree[m].name = "request"

NLCount(v) == Cardinality({ i \in 1..Len(v) : v[i] = NL })

StrConstants == { n \in Registered : Kind(n) = "Constant" /\ tree[n].isstr }

Ellipsis == <<".", ".", ".">>

IsTruncated(p, v) ==
    /\ Len(p) = TruncLimit
    /\ SubSeq(p, TruncKeep + 1, TruncLimit) = Ellipsis
    /\ SubSeq(p, 1, TruncKeep) = SubSeq(replace(v), 1, TruncKeep)

\* position of the field an edge label names among the parent's declared fields
FieldPos(p, label) == Field(p, label[1])

\* the edge's label and target are those of one child reference of its parent
EdgeWellLabelled(e) ==
    LET p == NodeOfNid(e.from)
        fr == tree[p].fields[FieldPos(p, e.label)]
    IN /\ fr.list <=> Len(e.label) = 2
       /\ IF fr.list
          THEN e.label[2] + 1 \in 1..Len(fr.v) /\ node_ids[fr.v[e.label[2] + 1]] = e.to
          ELSE fr.v # <<>> /\ node_ids[fr.v[1]] = e.to

EdgePairs == { ij \in (1..Len(dot_edges)) \X (1..Len(dot_edges)) :
                 ij[1] < ij[2] /\ dot_edges[ij[1]].from = dot_edges[ij[2]].from }

-----------------------------------------------------------------------------
(* Properties *)

\* C1: the graph nodes registered are exactly one per node identity reached, no two
\* share an id, ids follow first-visit order, a structurally equal but distinct node
\* has its own id and a node reached again is handled under the id of its first
\* visit; when add_node(root) has returned every reachable identity is registered.
C1_DedupInvariant ==
    /\ \A i, j \in 1..Len(dot_nodes) : i # j => dot_nodes[i].id # dot_nodes[j].id
    /\ \A a, b \in Registered : a # b => node_ids[a] # node_ids[b]
    /\ Cardinality(Registered) = Len(dot_nodes)
    /\ \A i \in 1..Len(astack) : astack[i].nid = node_ids[astack[i].node]
    /\ status = "done" => Registered = Reach /\ Len(dot_nodes) = Cardinality(Reach)

C1_Witness ==
    /\ status = "done"
    /\ \E n \in Reach : visits[n] >= 2
    /\ \E a, b \in Reach : a # b /\ tree[a] = tree[b]

\* C2 as stated: after the walk every graph node except the root has exactly one
\* incoming edge and the root has none.
C2_ExactlyOneIncoming ==
    status = "done" =>
        \A n \in Registered : Incoming(node_ids[n]) = (IF n = Root THEN 0 ELSE 1)

\* C2 as amended: every graph node except the root has at least one incoming edge,
\* one per add_node call that reached it (after the walk of a parsed tree: one per
\* field reference to the node), and the root has none.
C2_OneIncomingPerVisit ==
    /\ \A n \in Registered \ {Root} :
          Incoming(node_ids[n]) >= 1 /\ Incoming(node_ids[n]) = visits[n]
    /\ Root \in Registered => Incoming(node_ids[Root]) = 0
    /\ status = "done" =>
          \A n \in Reach \ {Root} : Incoming(node_ids[n]) = Cardinality(RefsTo(n))

C2_Witness ==
    /\ status = "done"
    /\ \E n \in Reach \ {Root} : Incoming(node_ids[n]) >= 2
    /\ \E n \in Reach \ {Root} : Incoming(node_ids[n]) = 1

C4_Verdict ==
    ClassifyDone =>
        \A n \in Reach :
            (Kind(n) = "Call" /\ IsYamlLoad(n)) =>
                LET ext == \/ EnclosingDef(n, {"FunctionDef"}) = "_external_load"
                           \/ RefsRequest(FirstArg(n))
                IN (n \in external_calls <=> ext) /\ (n \in internal_calls <=> ~ext)

C4_Witness ==
    /\ ClassifyDone
    /\ \E n \in internal_calls : FirstArg(n) = NoNode
    /\ \E n \in internal_calls :
          /\ FirstArg(n) # NoNode
          /\ Kind(FirstArg(n)) = "Name"
          /\ EnclosingDef(n, {"FunctionDef"}) \notin {None, "_external_load"}
    /\ \E n \in external_calls : EnclosingDef(n, {"FunctionDef"}) # "_external_load"

\* C5: external_calls and internal_calls are disjoint, hold exactly the calls whose
\* callee resolves to yaml.load, and a graph node carries the suffix and the fill
\* colour of the set its call is in, no suffix and the default colour otherwise.
C5_Classification ==
    /\ external_calls \cap internal_calls = {}
    /\ \A n \in external_calls \cup internal_calls :
          Kind(n) = "Call" /\ FuncName(n) = <<"yaml", "load">>
    /\ ClassifyDone =>
          \A n \in Reach : (Kind(n) = "Call" /\ FuncName(n) = <<"yaml", "load">>) =>
                              n \in external_calls \cup internal_calls
    /\ \A n \in Registered :
          LET g == GraphNodeOf(n) IN
          /\ g.label.suffix = " [external]" <=> n \in external_calls
          /\ g.fillcolor = "lightcoral" <=> n \in external_calls
          /\ g.label.suffix = " [internal]" <=> n \in internal_calls
          /\ g.fillcolor = "lightblue" <=> n \in internal_calls
          /\ n \notin external_calls \cup internal_calls =>
                g.label.suffix = "" /\ g.fillcolor = "white"

C5_Witness ==
    /\ status = "done"
    /\ external_calls # {}
    /\ internal_calls # {}
    /\ \E n \in Registered : Kind(n) = "Call" /\ n \notin external_calls \cup internal_calls

\* C6 as stated: a string constant of more than 20 characters gets a payload of 17
\* characters and '...', one of 20 or fewer characters is rendered in full.
C6_TruncationByValueLength ==
    \A n \in StrConstants :
        LET v == tree[n].value
            p == GraphNodeOf(n).label.payload
        IN /\ Len(v) > TruncLimit => IsTruncated(p, v)
           /\ Len(v) <= TruncLimit => p = replace(v)

\* C6 as amended: the length that decides is that of the escaped text, a newline
\* counting as two characters: more than 20 gives 17 escaped characters and '...',
\* 20 or fewer gives the escaped text in full; every value of more than 20
\* characters is therefore truncated to a payload of exactly 20.
C6_TruncationByEscapedLength ==
    \A n \in StrConstants :
        LET v == tree[n].value
            p == GraphNodeOf(n).label.payload
        IN /\ Len(v) > TruncLimit => IsTruncated(p, v)
           /\ Len(v) + NLCount(v) > TruncLimit => IsTruncated(p, v)
           /\ Len(v) + NLCount(v) <= TruncLimit => p = replace(v) /\ Len(p) = Len(v) + NLCount(v)

C6_Witness ==
    \E n \in StrConstants : Len(tree[n].value) > TruncLimit /\ NLCount(tree[n].value) > 0

\* C7: a tree nested deeper than the limit never ends the run in the interpreter's
\* own recursion failure (it would end in a 'tree too deep' state instead).
C7_NoUnguardedFailure == status # "RecursionError"

\* C8 as stated: the scope recorded with a yaml.load call is the name of the innermost
\* named definition (function, async function or class) around it, None without one.
C8_InnermostNamedDefinition ==
    \A i \in 1..Len(yaml_load_calls) :
        yaml_load_calls[i][2] = EnclosingDef(yaml_load_calls[i][1], OuterKinds)

\* C8 as amended: the scope recorded is the name of the innermost enclosing
\* FunctionDef, None without one; classes and async functions leave it unchanged.
C8_InnermostFunctionDef ==
    \A i \in 1..Len(yaml_load_calls) :
        yaml_load_calls[i][2] = EnclosingDef(yaml_load_calls[i][1], {"FunctionDef"})

C8_Witness ==
    /\ status # "find"
    /\ \E i, j, k \in 1..Len(yaml_load_calls) :
          /\ i < j /\ j < k
          /\ yaml_load_calls[i][2] \notin {None, yaml_load_calls[j][2]}
          /\ yaml_load_calls[j][2] # None
          /\ yaml_load_calls[k][2] = None

\* C9 as stated: the edges out of a node go to its single sub-node fields first and
\* to its list elements after them, labelled field and field[i].
C9_ScalarsBeforeLists ==
    /\ \A i \in 1..Len(dot_edges) : EdgeWellLabelled(dot_edges[i])
    /\ \A ij \in EdgePairs :
          ~(Len(dot_edges[ij[1]].label) = 2 /\ Len(dot_edges[ij[2]].label) = 1)

\* C9 as amended: the edges out of a node follow the declared order of its fields,
\* single sub-nodes and lists as they come, each list in increasing index order,
\* labelled field and field[i].
C9_DeclaredFieldOrder ==
    /\ \A i \in 1..Len(dot_edges) : EdgeWellLabelled(dot_edges[i])
    /\ \A ij \in EdgePairs :
          LET a == dot_edges[ij[1]]
              b == dot_edges[ij[2]]
              p == NodeOfNid(a.from)
          IN \/ FieldPos(p, a.label) < FieldPos(p, b.label)
             \/ /\ FieldPos(p, a.label) = FieldPos(p, b.label)
                /\ Len(a.label) = 2
                /\ a.label[2] < b.label[2]

C9_Witness ==
    /\ status = "done"
    /\ \E ij \in EdgePairs :
          /\ dot_edges[ij[1]].label = <<"targets", 0>>
          /\ dot_edges[ij[2]].label = <<"value">>
    /\ \E ij \in EdgePairs :
          /\ dot_edges[ij[1]].label = <<"body", 0>>
          /\ dot_edges[ij[2]].label = <<"body", 1>>

====
